---- MODULE Spec2Model ----
(***************************************************************************)
(* aioextensions: resolve / collect / schedule on one asyncio event loop,  *)
(* and the ExecutorPool singleton.                                         *)
(*                                                                         *)
(* The event loop is modelled as its FIFO queue of ready callbacks         *)
(* (`ready`): one action runs the callback at the head of the queue until  *)
(* its coroutine suspends or returns.  The only nondeterminism of a        *)
(* resolve invocation is the input: the arguments, which tasks raise, and  *)
(* when each task suspends and is woken again from outside the loop.       *)
(***************************************************************************)
EXTENDS Integers, Sequences, FiniteSets, TLC

\* ---------------------------------------------------------------- bounds
MaxN == 3          \* longest input sequence
MaxWorkers == 3    \* largest `workers` argument
MaxGreed == 1      \* largest `worker_greediness` argument
MaxExecutors == 3  \* executors one ExecutorPool constructs in its life
MaxPending == 1    \* work items in flight in one executor
MaxSize == 1       \* largest `max_workers` argument of a direct initialize
MaxCallers == 2    \* callers of the ExecutorPool at the same time

\* line 57: cpu_count() or 1
CPU_COUNT == 1

VARIABLES
    args,             \* the call: n, sized, workers, worker_greediness, consumer
    workers,          \* resolve's local `workers` (capped at line 166)
    store,            \* index -> queue (named by its worker), -1: no such key
    stream,           \* position of the shared iterator `stream`
    stream_copy,      \* position of the counting iterator `stream_copy`
    stream_finished,  \* asyncio.Event
    workers_up,       \* asyncio.Event
    up_waiters,       \* the consumer waits in workers_up.wait()
    workers_tasks,    \* indices of the spawned workers
    done,             \* worker -> content of its queue `done` (task references)
    getters,          \* worker -> the consumer waits in done.get()
    putters,          \* worker -> the worker waits in done.put()
    wpc,              \* worker -> position of the worker coroutine
    windex,           \* worker -> its local `index`
    wfuture,          \* worker -> the result of its local `future`
    tstate,           \* task -> "new", "scheduled", "suspended", "resumed",
                      \*         "returned", "raised"
    wrapper,          \* task -> schedule's wrapper future has its result
    overtaken,        \* a task finished before an earlier task of the input did
    ready,            \* the event loop's queue of ready callbacks
    cpc,              \* position of the consumer coroutine
    cindex,           \* index of the get_one the consumer is in
    cq,               \* the queue popped from store by that get_one
    spawn_index,      \* start_workers' loop variable
    results,          \* what the consumer obtained, in order
    error,            \* the error the consumer ended with
    _pool,            \* ExecutorPool._pool: 0 is None, else an executor
    executors,        \* the executors constructed so far, in order
    last,             \* the last ExecutorPool call and what it gave
    callers           \* caller -> its call on the ExecutorPool and how far it is

vars == << args, workers, store, stream, stream_copy, stream_finished,
           workers_up, up_waiters, workers_tasks, done, getters, putters, wpc,
           windex, wfuture, tstate, wrapper, overtaken, ready, cpc, cindex,
           cq, spawn_index, results, error, _pool, executors, last, callers >>

poolvars == << _pool, executors, last, callers >>

Indices == 0 .. (MaxN - 1)
WorkerIds == 0 .. (MaxWorkers - 1)

Min(a, b) == IF a < b THEN a ELSE b

\* ------------------------------------------------------------ the input
\* The value task i returns (or the error it raises) is not its index.
Value(i) == 100 + i

\* Task.result() of the finished task i: its value, or its error raised.
TaskOutcome(ts, i) == [ok |-> ts[i] = "returned", val |-> Value(i)]

Finished(ts, i) == ts[i] \in {"returned", "raised"}
Running(ts, i) == ts[i] \in {"scheduled", "suspended", "resumed"}

\* the get_one's in the order the generator yields them, lines 202-203
InOrder(n) == [k \in 1 .. n |-> k - 1]

\* The calls of collect, and of resolve by a loop that awaits each get_one
\* as the generator yields it.  `plan` is the sequence of the indices whose
\* get_one the consumer awaits: for these consumers, all of them in order.
Calls ==
    { [n |-> n, sized |-> sized, workers |-> w, worker_greediness |-> g,
       consumer |-> consumer, plan |-> InOrder(n)] :
          n \in 0 .. MaxN, sized \in BOOLEAN, w \in 0 .. MaxWorkers,
          g \in -1 .. MaxGreed, consumer \in {"collect", "resolve"} }

\* resolve by a loop that awaits the first position and pulls no more.  The
\* input has no length: one that has behaves as this one does with
\* min(workers, n) workers (lines 165-166).
AbandonCalls ==
    { call \in { [c EXCEPT !.plan = InOrder(1)] : c \in Calls } :
         /\ call.consumer = "resolve"
         /\ ~call.sized
         /\ call.workers >= 1
         /\ call.worker_greediness >= 0
         /\ Len(call.plan) < call.n }

\* the orders in which n get_one's can be awaited one at a time
Orders(n) ==
    { p \in [1 .. n -> 0 .. (n - 1)] :
         \A j, k \in 1 .. n : j # k => p[j] # p[k] }

\* resolve by a consumer that first takes every get_one from the generator
\* and then awaits them one at a time in an order of its choice
ListCallsOf(n, orders) ==
    { [c EXCEPT !.consumer = "list", !.plan = p] :
         c \in { call \in Calls : /\ call.consumer = "resolve"
                                  /\ call.workers >= 1
                                  /\ call.worker_greediness >= 0
                                  /\ call.n = n },
         p \in orders }

ListCalls == UNION { ListCallsOf(n, Orders(n)) : n \in 0 .. MaxN }

\* the last get_one first
Reversed(n) == [k \in 1 .. n |-> n - k]

\* the same consumer, awaiting in input order or in the opposite order
ListCallsTwoOrders ==
    UNION { ListCallsOf(n, {InOrder(n), Reversed(n)}) : n \in 0 .. MaxN }

\* ready-queue entries
Consumer == [k |-> "consumer", id |-> 0]
WorkerCb(w) == [k |-> "worker", id |-> w]
TaskCb(i) == [k |-> "task", id |-> i]
DoneCb(i) == [k |-> "done_callback", id |-> i]

\* -------------------------------------------------------- pure helpers
ArgErrorNoGreedinessCheck(w, g) ==
    IF w < 1 THEN "ValueError: workers must be >= 1" ELSE "none"

\* resolve, lines 160-163
ArgError(w, g) ==
    IF w < 1 THEN "ValueError: workers must be >= 1"
    ELSE IF g < 0 THEN "ValueError: worker_greediness must be >= 0"
    ELSE "none"

CapWorkersUncapped(w, n, sized) == w

\* resolve, lines 165-166
CapWorkers(w, n, sized) == IF sized THEN Min(w, n) ELSE w

fullNever(q, maxsize) == FALSE

fullBoundedAtZero(q, maxsize) == Len(q) >= maxsize

fullOffByOne(q, maxsize) == IF maxsize <= 0 THEN FALSE ELSE Len(q) > maxsize

\* asyncio.Queue(maxsize).full(): maxsize <= 0 is an unbounded queue
full(q, maxsize) == IF maxsize <= 0 THEN FALSE ELSE Len(q) >= maxsize

QueueItemLifo(q) == q[Len(q)]

\* asyncio.Queue.get_nowait(): the queue is FIFO
QueueItem(q) == Head(q)
QueueRest(q) == Tail(q)

NoWorkersYetAlways(workers_tasks_now) == TRUE

\* get_one, line 195: if not workers_tasks
NoWorkersYet(workers_tasks_now) == workers_tasks_now = {}

SpawnMoreOffByOne(index, limit, finished) == index <= limit /\ ~finished

SpawnMoreIgnoreFinished(index, limit, finished) == index < limit

\* start_workers, lines 187-189: one more worker is spawned
SpawnMore(index, limit, finished) == index < limit /\ ~finished

WrapperResultFirstTask(ts, i) == [raises |-> FALSE, ref |-> 0]

WrapperResultRaises(ts, i) == [raises |-> ts[i] = "raised", ref |-> i]

\* schedule, lines 231-233: the wrapper always gets a result, the finished
\* task itself, whether the task returned or raised
WrapperResult(ts, i) == [raises |-> FALSE, ref |-> i]

UnwrapValueOnly(ts, ref) == [ok |-> TRUE, val |-> Value(ref)]

\* get_one, line 199: (await awaitable).result()
Unwrap(ts, ref) == TaskOutcome(ts, ref)

\* ------------------------------------------------------------- state
State ==
    [ workers |-> workers, store |-> store, stream |-> stream,
      stream_copy |-> stream_copy, stream_finished |-> stream_finished,
      workers_up |-> workers_up, up_waiters |-> up_waiters,
      workers_tasks |-> workers_tasks, done |-> done, getters |-> getters,
      putters |-> putters, wpc |-> wpc, windex |-> windex, wfuture |-> wfuture,
      tstate |-> tstate, wrapper |-> wrapper, overtaken |-> overtaken,
      ready |-> ready, cpc |-> cpc, cindex |-> cindex, cq |-> cq,
      spawn_index |-> spawn_index, results |-> results, error |-> error ]

ApplyState(s) ==
    /\ workers' = s.workers
    /\ store' = s.store
    /\ stream' = s.stream
    /\ stream_copy' = s.stream_copy
    /\ stream_finished' = s.stream_finished
    /\ workers_up' = s.workers_up
    /\ up_waiters' = s.up_waiters
    /\ workers_tasks' = s.workers_tasks
    /\ done' = s.done
    /\ getters' = s.getters
    /\ putters' = s.putters
    /\ wpc' = s.wpc
    /\ windex' = s.windex
    /\ wfuture' = s.wfuture
    /\ tstate' = s.tstate
    /\ wrapper' = s.wrapper
    /\ overtaken' = s.overtaken
    /\ ready' = s.ready
    /\ cpc' = s.cpc
    /\ cindex' = s.cindex
    /\ cq' = s.cq
    /\ spawn_index' = s.spawn_index
    /\ results' = s.results
    /\ error' = s.error
    /\ UNCHANGED << args, poolvars >>

CallerIds == 1 .. MaxCallers

\* a caller that is in no call on the pool
NoCall ==
    [op |-> "none", pc |-> "idle", wait |-> FALSE, max_workers |-> 0,
     seen |-> FALSE, got |-> 0, err |-> "none"]

\* the state after a step is s, evaluated once
Apply(s) == \E t \in {s} : ApplyState(t)

NoPool ==
    /\ _pool = 0
    /\ executors = << >>
    /\ last = [op |-> "none", raises |-> FALSE, value |-> 0]
    /\ callers = [c \in CallerIds |-> NoCall]

Idle(call) ==
    /\ args = call
    /\ workers = args.workers
    /\ store = [i \in Indices |-> -1]
    /\ stream = 0
    /\ stream_copy = 0
    /\ stream_finished = FALSE
    /\ workers_up = FALSE
    /\ up_waiters = FALSE
    /\ workers_tasks = {}
    /\ done = [w \in WorkerIds |-> << >>]
    /\ getters = [w \in WorkerIds |-> FALSE]
    /\ putters = [w \in WorkerIds |-> FALSE]
    /\ wpc = [w \in WorkerIds |-> "none"]
    /\ windex = [w \in WorkerIds |-> -1]
    /\ wfuture = [w \in WorkerIds |-> -1]
    /\ tstate = [i \in Indices |-> "new"]
    /\ wrapper = [i \in Indices |-> FALSE]
    /\ overtaken = FALSE
    /\ ready = << Consumer >>
    /\ cpc = "start"
    /\ cindex = -1
    /\ cq = -1
    /\ spawn_index = 0
    /\ results = << >>
    /\ error = [kind |-> "none", val |-> 0]

Init == (\E call \in Calls : Idle(call)) /\ NoPool

\* ------------------------------------------------------------ workers
SetWorkersUpNoWake(s) == [s EXCEPT !.workers_up = TRUE]

\* asyncio.Event.set() on workers_up: wakes the consumer waiting in wait()
SetWorkersUp(s) ==
    IF s.up_waiters
    THEN [s EXCEPT !.workers_up = TRUE, !.up_waiters = FALSE,
                   !.ready = Append(@, Consumer)]
    ELSE [s EXCEPT !.workers_up = TRUE]

claimNotShared(s, w) ==
    IF s.stream >= args.n
    THEN [SetWorkersUp(s) EXCEPT !.stream_finished = TRUE, !.wpc[w] = "finished"]
    ELSE LET index == s.stream IN
         [s EXCEPT !.stream = IF w = 0 THEN index + 1 ELSE index,
                   !.windex[w] = index,
                   !.store[index] = w,
                   !.tstate[index] = "scheduled",
                   !.ready = Append(@, TaskCb(index)),
                   !.wpc[w] = "await_task"]

claimNoStore(s, w) ==
    IF s.stream >= args.n
    THEN [SetWorkersUp(s) EXCEPT !.stream_finished = TRUE, !.wpc[w] = "finished"]
    ELSE LET index == s.stream IN
         [s EXCEPT !.stream = index + 1,
                   !.windex[w] = index,
                   !.tstate[index] = "scheduled",
                   !.ready = Append(@, TaskCb(index)),
                   !.wpc[w] = "await_task"]

\* worker, lines 177-180 and 183-184: claim the next (index, awaitable) of
\* the stream and schedule it, or leave the loop when the stream is exhausted
claim(s, w) ==
    IF s.stream >= args.n
    THEN [SetWorkersUp(s) EXCEPT !.stream_finished = TRUE, !.wpc[w] = "finished"]
    ELSE LET index == s.stream IN
         [s EXCEPT !.stream = index + 1,
                   !.windex[w] = index,
                   !.store[index] = w,
                   !.tstate[index] = "scheduled",
                   !.ready = Append(@, TaskCb(index)),
                   !.wpc[w] = "await_task"]

\* worker, lines 181-182: await done.put(future); workers_up.set()
put(s, w) ==
    IF full(s.done[w], args.worker_greediness)
    THEN [s EXCEPT !.putters[w] = TRUE, !.wpc[w] = "await_put"]
    ELSE LET s1 == [s EXCEPT !.done[w] = Append(@, s.wfuture[w]),
                             !.putters[w] = FALSE]
             s2 == IF s1.getters[w]
                   THEN [s1 EXCEPT !.getters[w] = FALSE,
                                   !.ready = Append(@, Consumer)]
                   ELSE s1
         IN claim(SetWorkersUp(s2), w)

\* worker, line 180: the worker resumes with the wrapper's result
resume(s, w) ==
    LET r == WrapperResult(s.tstate, s.windex[w]) IN
    IF r.raises
    THEN [s EXCEPT !.wpc[w] = "crashed"]
    ELSE put([s EXCEPT !.wfuture[w] = r.ref], w)

WorkerStep(w) ==
    /\ ready # << >>
    /\ Head(ready) = WorkerCb(w)
    /\ LET s0 == [State EXCEPT !.ready = Tail(@)] IN
       Apply(CASE wpc[w] = "created" -> claim(s0, w)
               [] wpc[w] = "await_task" -> resume(s0, w)
               [] wpc[w] = "await_put" -> put(s0, w)
               [] OTHER -> s0)

\* -------------------------------------------------------------- tasks
\* the task's coroutine returns or raises: asyncio schedules its done callbacks
TaskFinish(i, how) ==
    /\ ready # << >>
    /\ Head(ready) = TaskCb(i)
    /\ Apply([State EXCEPT !.ready = Append(Tail(@), DoneCb(i)),
                           !.tstate[i] = how,
                           !.overtaken = @ \/ \E j \in 0 .. (i - 1) : Running(tstate, j)])

\* The task's coroutine awaits something outside this invocation.  A task is
\* its first step and its last: the steps in between change nothing but the
\* place of the task itself in `ready`, so one suspension with a wake-up at
\* any later moment stands for any number of them.
TaskSuspend(i) ==
    /\ ready # << >>
    /\ Head(ready) = TaskCb(i)
    /\ tstate[i] = "scheduled"
    /\ Apply([State EXCEPT !.ready = Tail(@),
                           !.tstate[i] = "suspended"])

\* what the task awaited is ready: its last step is queued
TaskWake(i) ==
    /\ tstate[i] = "suspended"
    /\ Apply([State EXCEPT !.ready = Append(@, TaskCb(i)),
                           !.tstate[i] = "resumed"])

\* schedule._done_callback, lines 231-233
DoneCallback(i) ==
    /\ ready # << >>
    /\ Head(ready) = DoneCb(i)
    /\ LET s0 == [State EXCEPT !.ready = Tail(@)]
           waiting == {w \in WorkerIds : wpc[w] = "await_task" /\ windex[w] = i}
       IN Apply(IF wrapper[i]
                THEN s0
                ELSE IF waiting = {}
                     THEN [s0 EXCEPT !.wrapper[i] = TRUE]
                     ELSE [s0 EXCEPT !.wrapper[i] = TRUE,
                                     !.ready = Append(@, WorkerCb(CHOOSE w \in waiting : TRUE))])

\* ----------------------------------------------------------- consumer
\* the consumer ends with an error raised by `await elem`: collect lets it
\* propagate; the consumer of resolve catches it, records it, and goes on
RECURSIVE Run(_, _), RunBody(_, _)

Raise(s, outcome) ==
    IF args.consumer = "collect"
    THEN [s EXCEPT !.cpc = "raised",
                   !.error = [kind |-> IF outcome.val = -1 THEN "KeyError" ELSE "task",
                              val |-> outcome.val]]
    ELSE Run([s EXCEPT !.results = Append(@, outcome)], "next")

\* The consumer from one suspension to the next.
\* "next":    resolve, lines 202-203, the generator yields the next get_one
\*            (the consumer of a list of them takes the next of its plan)
\* "get_one": get_one, lines 195-196
\* "spawn":   start_workers, lines 187-192
\* "pop":     get_one, line 198, store.pop(index)
\* "get":     get_one, lines 198-200, Queue.get() and the unwrapping
RunBody(s, phase) ==
    CASE phase = "next" ->
           LET awaited == Len(s.results) IN
           IF awaited >= Len(args.plan)
           THEN [s EXCEPT !.cpc = IF awaited >= args.n THEN "returned"
                                  ELSE "abandoned"]
           ELSE Run([s EXCEPT !.cindex = args.plan[awaited + 1],
                              !.stream_copy = IF args.consumer = "list"
                                              THEN @ ELSE @ + 1], "get_one")
      [] phase = "get_one" ->
           IF NoWorkersYet(s.workers_tasks)
           THEN Run([s EXCEPT !.spawn_index = 0], "spawn")
           ELSE Run(s, "pop")
      [] phase = "spawn" ->
           IF SpawnMore(s.spawn_index, s.workers, s.stream_finished)
           THEN [s EXCEPT !.workers_tasks = @ \cup {s.spawn_index},
                          !.wpc[s.spawn_index] = "created",
                          !.ready = Append(Append(@, WorkerCb(s.spawn_index)), Consumer),
                          !.spawn_index = @ + 1,
                          !.cpc = "spawning"]
           ELSE IF s.workers_up
                THEN Run(s, "pop")
                ELSE [s EXCEPT !.cpc = "wait_up", !.up_waiters = TRUE]
      [] phase = "pop" ->
           IF s.store[s.cindex] = -1
           THEN Raise(s, [ok |-> FALSE, val |-> -1])
           ELSE Run([s EXCEPT !.cq = s.store[s.cindex],
                              !.store[s.cindex] = -1], "get")
      [] phase = "get" ->
           IF s.done[s.cq] = << >>
           THEN [s EXCEPT !.cpc = "wait_get", !.getters[s.cq] = TRUE]
           ELSE LET item == QueueItem(s.done[s.cq])
                    s1 == [s EXCEPT !.done[s.cq] = QueueRest(@)]
                    s2 == IF s1.putters[s.cq]
                          THEN [s1 EXCEPT !.putters[s.cq] = FALSE,
                                          !.ready = Append(@, WorkerCb(s.cq))]
                          ELSE s1
                    outcome == Unwrap(s.tstate, item)
                IN IF outcome.ok
                   THEN Run([s2 EXCEPT !.results = Append(@, outcome)], "next")
                   ELSE Raise(s2, outcome)

\* Run(s0, phase) is RunBody(s0, phase), with s0 evaluated once
Run(s0, phase) == CHOOSE r \in {RunBody(t, phase) : t \in {s0}} : TRUE

\* resolve, lines 160-173: the generator's body up to its loop
Start(s) ==
    IF ArgError(args.workers, args.worker_greediness) # "none"
    THEN [s EXCEPT !.cpc = "raised",
                   !.error = [kind |-> ArgError(args.workers, args.worker_greediness),
                              val |-> 0]]
    ELSE LET s1 == [s EXCEPT !.workers = CapWorkers(args.workers, args.n,
                                                     args.sized)]
         IN IF args.consumer = "list"
            THEN [s1 EXCEPT !.stream_copy = args.n,
                            !.cpc = "listed",
                            !.ready = Append(@, Consumer)]
            ELSE Run(s1, "next")

ConsumerStep ==
    /\ ready # << >>
    /\ Head(ready) = Consumer
    /\ LET s0 == [State EXCEPT !.ready = Tail(@)] IN
       Apply(CASE cpc = "start" -> Start(s0)
               [] cpc = "listed" -> Run(s0, "next")
               [] cpc = "spawning" -> Run(s0, "spawn")
               [] cpc = "wait_up" -> Run(s0, "pop")
               [] cpc = "wait_get" -> Run(s0, "get")
               [] OTHER -> s0)

Next ==
    \/ ConsumerStep
    \/ \E w \in WorkerIds : WorkerStep(w)
    \/ \E i \in Indices : TaskFinish(i, "returned")
    \/ \E i \in Indices : TaskFinish(i, "raised")
    \/ \E i \in Indices : TaskSuspend(i)
    \/ \E i \in Indices : TaskWake(i)
    \/ \E i \in Indices : DoneCallback(i)

Spec == Init /\ [][Next]_vars

\* The event loop runs the callbacks of `ready` one after the other as long as
\* there is one, and every task that suspended is woken in the end (each
\* task terminates): a step that can be taken is taken.
InitCollect ==
    /\ \E call \in Calls :
          /\ call.consumer = "collect"
          /\ call.workers >= 1
          /\ call.worker_greediness >= 0
          /\ Idle(call)
    /\ NoPool

SpecFair == InitCollect /\ [][Next]_vars /\ WF_vars(Next)

InitAbandon == (\E call \in AbandonCalls : Idle(call)) /\ NoPool

\* resolve, its consumer leaving the loop before the last position; the
\* loop keeps running what is ready and every suspended task is woken
SpecAbandon == InitAbandon /\ [][Next]_vars /\ WF_vars(Next)

InitAnyOrder ==
    /\ \E call \in ListCalls : Idle(call)
    /\ NoPool

\* resolve, its get_one's awaited one at a time in any order
SpecAnyOrder == InitAnyOrder /\ [][Next]_vars

InitList == (\E call \in ListCallsTwoOrders : Idle(call)) /\ NoPool

\* resolve, every get_one taken from the generator before the first is awaited
SpecList == InitList /\ [][Next]_vars

\* ----------------------------------------------------------- schedule
\* schedule called by a coroutine of its own: for each of n awaitables it
\* calls schedule and then either awaits the wrapper and unwraps what it
\* gets, catching the error, or lets the loop run without awaiting it.

\* schedule, lines 229-237: create the wrapper, create the task (its first
\* step is queued), attach the callback, return the wrapper
schedule(s, i) ==
    [s EXCEPT !.tstate[i] = "scheduled",
              !.wrapper[i] = FALSE,
              !.ready = Append(@, TaskCb(i))]

ScheduleCall(awaits) ==
    /\ ready # << >>
    /\ Head(ready) = Consumer
    /\ cpc \in {"start", "scheduling"}
    /\ stream < args.n
    /\ LET s1 == schedule([State EXCEPT !.ready = Tail(@)], stream) IN
       Apply([s1 EXCEPT !.stream = @ + 1,
                        !.cindex = stream,
                        !.cpc = IF awaits THEN "await_wrapper" ELSE "scheduling",
                        !.ready = IF awaits THEN @ ELSE Append(@, Consumer)])

\* the caller has called schedule for every awaitable
ScheduleReturn ==
    /\ ready # << >>
    /\ Head(ready) = Consumer
    /\ cpc \in {"start", "scheduling"}
    /\ stream >= args.n
    /\ Apply([State EXCEPT !.ready = Tail(@), !.cpc = "returned"])

\* schedule._done_callback, lines 231-233, the waiter being the caller
DoneCallbackDirect(i) ==
    /\ ready # << >>
    /\ Head(ready) = DoneCb(i)
    /\ LET s0 == [State EXCEPT !.ready = Tail(@)] IN
       Apply(IF wrapper[i]
             THEN s0
             ELSE IF cpc = "await_wrapper" /\ cindex = i
                  THEN [s0 EXCEPT !.wrapper[i] = TRUE,
                                  !.ready = Append(@, Consumer)]
                  ELSE [s0 EXCEPT !.wrapper[i] = TRUE])

\* `await wrapper` returns what the wrapper was resolved with, and the
\* caller unwraps it: .result() gives the value or raises the error
AwaitWrapper ==
    /\ ready # << >>
    /\ Head(ready) = Consumer
    /\ cpc = "await_wrapper"
    /\ LET s0 == [State EXCEPT !.ready = Tail(@)]
           r == WrapperResult(tstate, cindex)
       IN Apply(IF r.raises
                THEN [s0 EXCEPT !.cpc = "raised",
                                !.error = [kind |-> "task", val |-> Value(r.ref)]]
                ELSE [s0 EXCEPT !.results = Append(@, Unwrap(tstate, r.ref)),
                                !.cpc = "scheduling",
                                !.ready = Append(@, Consumer)])

NextSchedule ==
    \/ \E awaits \in BOOLEAN : ScheduleCall(awaits)
    \/ ScheduleReturn
    \/ AwaitWrapper
    \/ \E i \in Indices : TaskFinish(i, "returned")
    \/ \E i \in Indices : TaskFinish(i, "raised")
    \/ \E i \in Indices : TaskSuspend(i)
    \/ \E i \in Indices : TaskWake(i)
    \/ \E i \in Indices : DoneCallbackDirect(i)

InitSchedule ==
    /\ \E n \in 1 .. MaxN :
          Idle([n |-> n, sized |-> TRUE, workers |-> 1, worker_greediness |-> 0,
                consumer |-> "schedule", plan |-> << >>])
    /\ NoPool

SpecSchedule == InitSchedule /\ [][NextSchedule]_vars

\* ------------------------------------------------------- ExecutorPool
\* ExecutorPool._cls(max_workers=max_workers), line 124: a fresh executor
NewExecutor(max_workers) ==
    [max_workers |-> max_workers, shut |-> "open", pending |-> 0]

\* Executor.shutdown(wait=wait), lines 122 and 128: the executor takes no
\* more work; with wait the call returns when its work in flight is done
ExecutorShutdown(ex, e, wait) ==
    [ex EXCEPT ![e].shut = IF wait THEN "wait" ELSE "nowait",
               ![e].pending = IF wait THEN 0 ELSE @]

initializeLeaksOld(p, ex, max_workers) ==
    [pool |-> Len(ex) + 1, executors |-> Append(ex, NewExecutor(max_workers))]

\* ExecutorPool.initialize, lines 120-124
initialize(p, ex, max_workers) ==
    LET ex1 == IF p # 0 THEN ExecutorShutdown(ex, p, FALSE) ELSE ex
        ex2 == Append(ex1, NewExecutor(max_workers))
    IN [pool |-> Len(ex2), executors |-> ex2]

shutdownKeepsPool(p, ex, wait) ==
    IF p # 0
    THEN [pool |-> p, executors |-> ExecutorShutdown(ex, p, wait)]
    ELSE [pool |-> p, executors |-> ex]

\* ExecutorPool.shutdown, lines 126-129
shutdown(p, ex, wait) ==
    IF p # 0
    THEN [pool |-> 0, executors |-> ExecutorShutdown(ex, p, wait)]
    ELSE [pool |-> p, executors |-> ex]

\* ExecutorPool.pool, lines 131-136
pool(p) ==
    IF p = 0
    THEN [raises |-> TRUE, value |-> 0]     \* RuntimeError('Must Call initialize first')
    ELSE [raises |-> FALSE, value |-> p]

\* ExecutorPool.initialized, lines 138-140
initialized(p) == p # 0

Initialize(max_workers) ==
    /\ Len(executors) < MaxExecutors
    /\ LET r == initialize(_pool, executors, max_workers) IN
       /\ _pool' = r.pool
       /\ executors' = r.executors
       /\ last' = [op |-> "initialize", raises |-> FALSE, value |-> r.pool]

Shutdown(wait) ==
    /\ LET r == shutdown(_pool, executors, wait) IN
       /\ _pool' = r.pool
       /\ executors' = r.executors
       /\ last' = [op |-> "shutdown", raises |-> FALSE, value |-> _pool]

PoolAccess ==
    /\ last' = [op |-> "pool", raises |-> pool(_pool).raises,
                value |-> pool(_pool).value]
    /\ UNCHANGED << _pool, executors >>

InitializedCheck ==
    /\ last' = [op |-> "initialized", raises |-> FALSE,
                value |-> IF initialized(_pool) THEN 1 ELSE 0]
    /\ UNCHANGED << _pool, executors >>

\* unblock, lines 246-251, up to its await: initialize the pool when it is
\* not initialized, then hand the function to the executor the accessor gives
Unblock ==
    /\ initialized(_pool) \/ Len(executors) < MaxExecutors
    /\ LET r == IF ~initialized(_pool)
                THEN initialize(_pool, executors, 10 * CPU_COUNT)
                ELSE [pool |-> _pool, executors |-> executors]
           got == pool(r.pool)
       IN /\ ~got.raises => r.executors[got.value].pending < MaxPending
          /\ _pool' = r.pool
          /\ executors' = IF got.raises \/ r.executors[got.value].shut # "open"
                          THEN r.executors
                          ELSE [r.executors EXCEPT ![got.value].pending = @ + 1]
          /\ last' = [op |-> "unblock",
                      raises |-> got.raises \/ r.executors[got.value].shut # "open",
                      value |-> got.value]

\* a work item in flight finishes in its executor's thread or process
WorkDone(e) ==
    /\ e \in 1 .. Len(executors)
    /\ executors[e].pending > 0
    /\ executors' = [executors EXCEPT ![e].pending = @ - 1]
    /\ UNCHANGED << _pool, last >>

resolvevars == << args, workers, store, stream, stream_copy, stream_finished,
                  workers_up, up_waiters, workers_tasks, done, getters, putters,
                  wpc, windex, wfuture, tstate, wrapper, overtaken, ready, cpc,
                  cindex, cq, spawn_index, results, error >>

NextPool ==
    \/ \E max_workers \in 1 .. MaxSize : Initialize(max_workers) /\ UNCHANGED << resolvevars, callers >>
    \/ \E wait \in BOOLEAN : Shutdown(wait) /\ UNCHANGED << resolvevars, callers >>
    \/ PoolAccess /\ UNCHANGED << resolvevars, callers >>
    \/ InitializedCheck /\ UNCHANGED << resolvevars, callers >>
    \/ Unblock /\ UNCHANGED << resolvevars, callers >>
    \/ \E e \in 1 .. MaxExecutors : WorkDone(e) /\ UNCHANGED << resolvevars, callers >>

InitPool ==
    /\ Idle([n |-> 0, sized |-> TRUE, workers |-> 1, worker_greediness |-> 0,
             consumer |-> "collect", plan |-> << >>])
    /\ NoPool

SpecPool == InitPool /\ [][NextPool]_vars

\* ------------------------------------------- callers of the ExecutorPool
\* The calls on the pool singleton, statement by statement.  A caller holds
\* what its frame holds: the call and its arguments, the value `initialized`
\* gave it (seen), the executor the accessor gave it (got), and its error.
NeedsInitializeAlways(p) == TRUE

\* unblock, line 246: if not THREAD_POOL.initialized
NeedsInitialize(p) == ~initialized(p)

PoolCalls ==
    {[NoCall EXCEPT !.op = "unblock", !.pc = "initialized",
                    !.max_workers = 10 * CPU_COUNT]}
    \cup {[NoCall EXCEPT !.op = "shutdown", !.pc = "sd_check", !.wait = wait] :
             wait \in BOOLEAN}
    \cup {[NoCall EXCEPT !.op = "initialize", !.pc = "init_check",
                         !.max_workers = CPU_COUNT]}

PoolState == [pool |-> _pool, executors |-> executors, callers |-> callers]

fail(st, c, err) ==
    [st EXCEPT !.callers[c].pc = "failed", !.callers[c].err = err]

\* the next statement of caller c's call: every read of self._pool is a
\* read of the attribute at that moment, as in the source
advance(st, c) ==
    LET me == st.callers[c]
        p == st.pool
    IN CASE me.pc = "initialized" ->          \* lines 246 and 140
              [st EXCEPT !.callers[c].seen = initialized(p),
                         !.callers[c].pc = IF NeedsInitialize(p)
                                           THEN "init_check" ELSE "pool_check"]
         [] me.pc = "init_check" ->           \* line 121
              [st EXCEPT !.callers[c].pc = IF p # 0 THEN "init_shutdown"
                                           ELSE "init_new"]
         [] me.pc = "init_shutdown" ->        \* line 122
              IF p = 0
              THEN fail(st, c, "AttributeError: 'NoneType' object has no attribute 'shutdown'")
              ELSE [st EXCEPT !.executors = ExecutorShutdown(@, p, FALSE),
                              !.callers[c].pc = "init_new"]
         [] me.pc = "init_new" ->             \* line 124
              [st EXCEPT !.executors = Append(@, NewExecutor(me.max_workers)),
                         !.pool = Len(st.executors) + 1,
                         !.callers[c].pc = IF me.op = "unblock" THEN "pool_check"
                                           ELSE "done"]
         [] me.pc = "pool_check" ->           \* lines 133-134
              IF pool(p).raises
              THEN fail(st, c, "RuntimeError: Must Call initialize first")
              ELSE [st EXCEPT !.callers[c].pc = "pool_return"]
         [] me.pc = "pool_return" ->          \* line 136
              [st EXCEPT !.callers[c].got = p, !.callers[c].pc = "submit"]
         [] me.pc = "submit" ->               \* lines 248-251, run_in_executor
              IF me.got = 0                   \* None: the loop's default executor
              THEN [st EXCEPT !.callers[c].pc = "awaiting"]
              ELSE IF st.executors[me.got].shut # "open"
                   THEN fail(st, c, "RuntimeError: cannot schedule new futures after shutdown")
                   ELSE [st EXCEPT !.executors[me.got].pending = @ + 1,
                                   !.callers[c].pc = "awaiting"]
         [] me.pc = "sd_check" ->             \* line 127
              [st EXCEPT !.callers[c].pc = IF p # 0 THEN "sd_call" ELSE "done"]
         [] me.pc = "sd_call" ->              \* line 128
              IF p = 0
              THEN fail(st, c, "AttributeError: 'NoneType' object has no attribute 'shutdown'")
              ELSE [st EXCEPT !.executors = ExecutorShutdown(@, p, me.wait),
                              !.callers[c].pc = "sd_clear"]
         [] me.pc = "sd_clear" ->             \* line 129
              [st EXCEPT !.pool = 0, !.callers[c].pc = "done"]
         [] OTHER -> st

InCall(pc) == pc \notin {"idle", "awaiting", "done", "failed"}

ApplyPool(st) ==
    /\ _pool' = st.pool
    /\ executors' = st.executors
    /\ callers' = st.callers
    /\ UNCHANGED << resolvevars, last >>

\* a caller enters a call on the pool
ThreadCall(c, call) ==
    /\ callers[c].pc = "idle"
    /\ ApplyPool([PoolState EXCEPT !.callers[c] = call])

\* Callers on different OS threads: the interpreter may switch threads
\* between any two statements, and nothing in the class takes a lock.
ThreadStep(c) ==
    /\ InCall(callers[c].pc)
    /\ callers[c].pc = "init_new" => Len(executors) < MaxExecutors
    /\ ApplyPool(advance(PoolState, c))

\* the work handed to the executor is done and the caller's await returns
CallerResume(c) ==
    /\ callers[c].pc = "awaiting"
    /\ LET e == callers[c].got IN
       ApplyPool([PoolState EXCEPT
                    !.callers[c].pc = "done",
                    !.executors = IF e # 0 /\ executors[e].pending > 0
                                  THEN [@ EXCEPT ![e].pending = @ - 1]
                                  ELSE @])

NextThreads ==
    \/ \E c \in CallerIds : \E call \in PoolCalls : ThreadCall(c, call)
    \/ \E c \in CallerIds : ThreadStep(c)
    \/ \E c \in CallerIds : CallerResume(c)

SpecThreads == InitPool /\ [][NextThreads]_vars

\* Callers that are coroutines of one event loop: a call runs from its first
\* statement to its await (unblock, lines 246-251) or to its return without
\* any other coroutine running in between.
RECURSIVE RunToAwait(_, _)
RunToAwait(st, c) ==
    IF InCall(st.callers[c].pc) THEN RunToAwait(advance(st, c), c) ELSE st

CoopCall(c, call) ==
    /\ callers[c].pc = "idle"
    /\ LET st == RunToAwait([PoolState EXCEPT !.callers[c] = call], c) IN
       /\ Len(st.executors) <= MaxExecutors
       /\ ApplyPool(IF st.callers[c].pc = "done"
                    THEN [st EXCEPT !.callers[c] = NoCall]
                    ELSE st)

\* the caller's coroutine ends, and the caller may call again
CallerReturn(c) ==
    /\ callers[c].pc \in {"done", "failed"}
    /\ ApplyPool([PoolState EXCEPT !.callers[c] = NoCall])

NextCoop ==
    \/ \E c \in CallerIds : \E call \in PoolCalls : CoopCall(c, call)
    \/ \E c \in CallerIds : CallerResume(c)
    \/ \E c \in CallerIds : CallerReturn(c)

SpecCoop == InitPool /\ [][NextCoop]_vars

\* ------------------------------------------------------------- claims
ValidCall == args.workers >= 1 /\ args.worker_greediness >= 0

\* the tasks started and not yet finished
Executing == {i \in Indices : Running(tstate, i)}

\* the finished results worker w has not handed to the consumer yet: those
\* in its queue, and the one of its current task once that has finished
Held(w) ==
    Len(done[w])
    + (IF \/ wpc[w] = "await_put"
          \/ wpc[w] = "await_task" /\ Finished(tstate, windex[w])
       THEN 1 ELSE 0)

ConsumerEnded == cpc \in {"returned", "raised"}

\* C1: when collect returns it returns exactly N results, the i-th the value
\* of the i-th task, whatever order the tasks finished in; and collect raises
\* nothing but the error of a task that raised
C1_CollectInOrder ==
    (args.consumer = "collect" /\ ValidCall) =>
        /\ cpc = "returned" =>
              /\ Len(results) = args.n
              /\ \A i \in 0 .. (args.n - 1) :
                    results[i + 1] = [ok |-> TRUE, val |-> Value(i)]
        /\ cpc = "raised" => error.kind = "task" /\ tstate[cindex] = "raised"

C1_Witness ==
    /\ args.consumer = "collect"
    /\ cpc = "returned"
    /\ args.n = 3
    /\ args.workers >= 2
    /\ overtaken
    /\ Len(results) = 3

\* C2: the tasks started and not finished are never more than `workers`,
\* and each of them is the current task of one worker awaiting it
C2_AtMostWorkersExecuting ==
    /\ Cardinality(Executing) <= args.workers
    /\ \A i \in Executing :
          Cardinality({w \in workers_tasks :
                          wpc[w] = "await_task" /\ windex[w] = i}) = 1

C2_Witness ==
    /\ args.n = 3
    /\ args.workers = 2
    /\ Cardinality(Executing) = 2
    /\ stream = 2

C4_CollectFailFast ==
    args.consumer = "collect" =>
        /\ \A k \in Indices :
              tstate[k] = "raised" => cindex <= k /\ cpc # "returned"
        /\ (cpc = "raised" /\ ValidCall) =>
              /\ error = [kind |-> "task", val |-> Value(cindex)]
              /\ tstate[cindex] = "raised"
              /\ stream_copy = cindex + 1
              /\ Len(results) = cindex
              /\ \A j \in 0 .. (cindex - 1) :
                    /\ tstate[j] = "returned"
                    /\ results[j + 1] = [ok |-> TRUE, val |-> Value(j)]

C4_Witness ==
    /\ args.consumer = "collect"
    /\ cpc = "raised"
    /\ cindex = 1
    /\ tstate[1] = "raised"
    /\ tstate[2] = "raised"
    /\ Len(results) = 1

\* C5: a task's error is raised by the get_one of its own index only: no
\* worker ends because of it (a worker ends only when the stream is
\* exhausted), and the consumer of resolve that catches it obtains, in order,
\* the outcome of every task
C5_ErrorStaysAtItsIndex ==
    /\ \A w \in WorkerIds :
          /\ wpc[w] # "crashed"
          /\ wpc[w] = "finished" => stream >= args.n
    /\ args.consumer = "resolve" =>
          /\ \A j \in 1 .. Len(results) :
                results[j] = TaskOutcome(tstate, j - 1)
          /\ cpc = "returned" => Len(results) = args.n
          /\ cpc = "raised" => ~ValidCall

C5_Witness ==
    /\ args.consumer = "resolve"
    /\ args.workers = 1
    /\ args.n = 3
    /\ cpc = "returned"
    /\ tstate[0] = "raised"
    /\ wpc[0] = "finished"
    /\ results = << [ok |-> FALSE, val |-> Value(0)],
                    [ok |-> TRUE, val |-> Value(1)],
                    [ok |-> TRUE, val |-> Value(2)] >>

\* C6: with workers < 1 or worker_greediness < 0 the call ends with the
\* argument error, and no worker is ever spawned and no task ever started
C6_InvalidArguments ==
    ~ValidCall =>
        /\ cpc \in {"start", "raised"}
        /\ cpc = "raised" =>
              error.kind \in {"ValueError: workers must be >= 1",
                              "ValueError: worker_greediness must be >= 0"}
        /\ workers_tasks = {}
        /\ \A w \in WorkerIds : wpc[w] = "none"
        /\ \A i \in Indices : tstate[i] = "new"
        /\ stream = 0

C6_Witness ==
    /\ args.worker_greediness = -1
    /\ args.workers = 2
    /\ args.n = 3
    /\ cpc = "raised"

\* C7: never more workers than `workers`, never more than N when the input
\* has a length; for an empty input no worker and an empty output
C7_SpawnedWorkers ==
    /\ Cardinality(workers_tasks) <= args.workers
    /\ args.sized => Cardinality(workers_tasks) <= args.n
    /\ args.n = 0 =>
          /\ workers_tasks = {}
          /\ results = << >>
          /\ (ValidCall /\ cpc # "start") => cpc = "returned"

C7_Witness ==
    /\ args.sized
    /\ args.n = 2
    /\ args.workers = 3
    /\ Cardinality(workers_tasks) = 2
    /\ cpc = "returned"

\* C8 as stated: one task, one worker, with or without a known length
C8_Original ==
    (ValidCall /\ args.n = 1) =>
        /\ Cardinality(workers_tasks) <= 1
        /\ ConsumerEnded => Cardinality(workers_tasks) = 1

\* C8 amended: for one task, one worker is spawned when the input has a
\* length or workers = 1; for a stream of unknown length and workers >= 2 a
\* second worker is spawned, which finds the stream exhausted and claims nothing
C8_SingleTask ==
    (ValidCall /\ args.n = 1) =>
        LET expected == IF args.sized \/ args.workers = 1 THEN 1 ELSE 2 IN
        /\ Cardinality(workers_tasks) <= expected
        /\ ConsumerEnded => Cardinality(workers_tasks) = expected
        /\ \A w \in workers_tasks : w # 0 => windex[w] = -1
        /\ \A w \in workers_tasks : (w # 0 /\ ConsumerEnded) => wpc[w] = "finished"

C8_Witness ==
    /\ args.n = 1
    /\ ~args.sized
    /\ args.workers = 3
    /\ cpc = "returned"
    /\ workers_tasks = {0, 1}
    /\ windex[1] = -1

\* the executors that have not been told to shut down
Live == {e \in 1 .. Len(executors) : executors[e].shut = "open"}

C9_State ==
    /\ initialized(_pool) <=> Live # {}
    /\ last.op = "initialized" => (last.value = 1 <=> Live # {})
    /\ last.op = "pool" =>
          /\ last.raises <=> Live = {}
          /\ ~last.raises => last.value = _pool /\ last.value \in Live
    /\ last.op = "shutdown" => _pool = 0 /\ Live = {}

C9_Step ==
    (_pool = 0 /\ \E wait \in BOOLEAN : Shutdown(wait)) =>
        UNCHANGED << _pool, executors >>

\* C9: `initialized` is true iff an executor that has not been shut down is
\* installed; the accessor raises exactly when there is none, and otherwise
\* gives the installed one; after shutdown there is none; shutdown with no
\* executor installed changes nothing
C9_PoolLifecycle == [] C9_State /\ [][C9_Step]_vars

C9_Witness ==
    /\ last.op = "pool"
    /\ last.raises
    /\ Len(executors) = 2
    /\ \E e \in 1 .. 2 : executors[e].shut = "wait"

C10_State ==
    /\ Cardinality(Live) <= 1
    /\ \A e \in 1 .. Len(executors) : e # _pool => executors[e].shut # "open"
    /\ _pool # 0 => _pool \in Live

C10_Step ==
    (_pool # 0 /\ Len(executors') = Len(executors) + 1) =>
        /\ executors'[_pool].shut = "nowait"
        /\ executors'[_pool].pending = executors[_pool].pending
        /\ _pool' = Len(executors')
        /\ executors'[_pool'].shut = "open"
        /\ executors'[_pool'].pending = 0

\* C10: initialize on a pool that has an executor tells it to shut down
\* without waiting for its work in flight and installs a fresh one; at most
\* one executor is open at any time, and every executor that is no longer
\* installed has been told to shut down
C10_Replace == [] C10_State /\ [][C10_Step]_vars

C10_Witness ==
    /\ _pool = 2
    /\ executors[1].shut = "nowait"
    /\ executors[1].pending = 1
    /\ executors[2].shut = "open"

\* C11 as stated: the calls on the pool exclude each other when the callers
\* are on different OS threads: a caller that saw initialized = true never
\* gets the not-initialized error from the accessor, first uses that overlap
\* (no caller shutting down or initializing directly) construct one executor
\* between them, and no caller hands work to an executor already shut down
C11_MutualExclusion ==
    /\ \A c \in CallerIds :
          callers[c].seen =>
              callers[c].err # "RuntimeError: Must Call initialize first"
    /\ (\A c \in CallerIds : callers[c].op \in {"none", "unblock"}) =>
          Len(executors) <= 1
    /\ \A c \in CallerIds :
          callers[c].err # "RuntimeError: cannot schedule new futures after shutdown"

C18_State ==
    /\ Cardinality(Live) <= 1
    /\ \A c \in CallerIds :
          callers[c].op = "unblock" =>
              /\ callers[c].pc \in {"awaiting", "done"}
              /\ callers[c].err = "none"
              /\ callers[c].got \in 1 .. Len(executors)
              /\ (callers[c].pc = "awaiting" /\ executors[callers[c].got].shut = "open") =>
                    callers[c].got = _pool

C18_Step ==
    \A c \in CallerIds :
        (callers[c].pc = "idle" /\ callers'[c].op = "unblock") =>
            /\ initialized(_pool) =>
                  /\ _pool' = _pool
                  /\ executors' = [executors EXCEPT ![_pool].pending = @ + 1]
            /\ ~initialized(_pool) =>
                  /\ Len(executors') = Len(executors) + 1
                  /\ _pool' = Len(executors')
                  /\ executors'[_pool'] =
                        [NewExecutor(10 * CPU_COUNT) EXCEPT !.pending = 1]
                  /\ \A e \in 1 .. Len(executors) : executors'[e] = executors[e]
            /\ callers'[c].pc = "awaiting"
            /\ callers'[c].got = _pool'

\* C18: with the callers coroutines of one event loop, an unblock call that
\* finds the pool initialized leaves it installed and hands its work to it;
\* one that finds it not initialized installs exactly one fresh executor and
\* hands its work to that; however many calls are pending, at most one
\* executor is open, every pending call's executor is the installed one
\* unless it was shut down since, and no unblock call ends with an error
C18_CooperativeCallers == [] C18_State /\ [][C18_Step]_vars

C18_Witness ==
    /\ Len(executors) = 2
    /\ _pool = 2
    /\ executors[1].shut # "open"
    /\ executors[2].pending = 2
    /\ \A c \in {1, 2} :
          /\ callers[c].op = "unblock"
          /\ callers[c].pc = "awaiting"
          /\ callers[c].got = 2

\* the indices claimed so far
Claimed == {i \in Indices : tstate[i] # "new"}

C13_State ==
    /\ stream <= args.n
    /\ Claimed = 0 .. (stream - 1)
    /\ \A w1, w2 \in WorkerIds :
          (w1 # w2 /\ windex[w1] >= 0) => windex[w1] # windex[w2]
    /\ \A w \in WorkerIds : windex[w] >= 0 => w \in workers_tasks
    /\ (ValidCall /\ cpc = "returned") => Claimed = 0 .. (args.n - 1)

C13_Step ==
    /\ stream' = stream \/ stream' = stream + 1
    /\ \A i \in Indices : (tstate[i] = "new" /\ tstate'[i] # "new") =>
          /\ i = stream /\ stream' = stream + 1
          /\ Cardinality({w \in WorkerIds : windex'[w] # windex[w]}) = 1
    /\ \A w \in WorkerIds : windex'[w] # windex[w] =>
          /\ windex'[w] = stream /\ stream' = stream + 1
          /\ tstate[stream] = "new" /\ tstate'[stream] = "scheduled"
          /\ store'[stream] = w

\* C13: a worker takes no index but the next one of the shared stream, and
\* taking it moves the stream on by one: indices are claimed in increasing
\* order, none skipped, each by exactly one worker and once; when the
\* consumer has pulled every position, every index of [0, N) is claimed
C13_ExclusiveClaims == [] C13_State /\ [][C13_Step]_vars

C13_Witness ==
    /\ args.n = 3
    /\ cpc = "returned"
    /\ windex[0] = 2
    /\ windex[1] = 1
    /\ Claimed = {0, 1, 2}

\* C14: the consumer that awaits the get_one's one at a time in input order
\* never finds the key of its index missing from `store`; the queue it waits
\* on is that of the worker that claimed its index, the handle at the head
\* of that queue is the one of its index, and the key of the next index is
\* recorded by the time a handle is there to take; so the j-th outcome it
\* obtains is that of the j-th task
C14_InOrderGet ==
    ValidCall =>
        /\ error.kind # "KeyError"
        /\ \A j \in 1 .. Len(results) : results[j].val = Value(j - 1)
        /\ cpc = "raised" => error.val = Value(cindex)
        /\ cpc = "wait_up" => ~workers_up \/ store[cindex] \in workers_tasks
        /\ cpc = "wait_get" =>
              /\ cq \in workers_tasks
              /\ store[cindex] = -1
              /\ done[cq] # << >> =>
                    /\ Head(done[cq]) = cindex
                    /\ cindex + 1 < args.n => store[cindex + 1] \in workers_tasks
              /\ done[cq] = << >> =>
                    /\ windex[cq] = cindex
                    /\ wpc[cq] \in {"await_task", "await_put"}

C14_Witness ==
    /\ args.n = 3
    /\ cpc = "wait_get"
    /\ cindex = 1
    /\ cq = 1
    /\ done[1] = << >>
    /\ tstate[1] = "suspended"
    /\ store[2] = 0
    /\ tstate[2] = "returned"

C20_State ==
    args.worker_greediness >= 1 =>
        \A w \in WorkerIds :
            /\ Len(done[w]) <= args.worker_greediness
            /\ Held(w) <= args.worker_greediness + 1
            /\ Held(w) = args.worker_greediness + 1 =>
                  /\ Len(done[w]) = args.worker_greediness
                  /\ wpc[w] \in {"await_task", "await_put"}
                  /\ Finished(tstate, windex[w])

C20_Step ==
    args.worker_greediness >= 1 =>
        \A w \in WorkerIds :
            Held(w) = args.worker_greediness + 1 =>
                /\ windex'[w] = windex[w]
                /\ stream' # stream => \E v \in WorkerIds : v # w /\ windex'[v] = stream

\* C20: for worker_greediness g >= 1 a worker's queue holds at most g
\* handles and the worker at most g + 1 finished results not yet consumed,
\* the last of them the result of its current task, which has finished;
\* in a step taken while it holds g + 1 the worker claims no index
C20_GreedinessBound == [] C20_State /\ [][C20_Step]_vars

C20_Witness ==
    /\ args.worker_greediness = 1
    /\ cpc = "wait_get"
    /\ tstate[cindex] = "suspended"
    /\ \E w \in WorkerIds :
          /\ w # cq
          /\ Held(w) = 2
          /\ wpc[w] = "await_task"
          /\ Len(done[w]) = 1

\* nothing is left to run: no callback is ready and no task is to be woken
Quiescent == ready = << >> /\ \A i \in Indices : tstate[i] # "suspended"

C19_State ==
    /\ (cpc = "wait_get" /\ getters[cq]) =>
          /\ ~putters[cq]
          /\ wpc[cq] \in {"await_task", "await_put"}
          /\ windex[cq] = cindex
    /\ (cpc = "wait_up" /\ up_waiters) =>
          \E w \in workers_tasks : wpc[w] \in {"created", "await_task"}
    /\ Quiescent => ConsumerEnded

\* C19: the in-order consumer never waits on the queue of a worker that is
\* itself blocked in put: the worker it waits on is awaiting the task of the
\* consumer's index; no state in which nothing is left to run has the
\* consumer still waiting; and when every step that can be taken is taken,
\* collect (and the loop over resolve) returns or raises in the end
C19_NoDeadlock == [] C19_State /\ <> ConsumerEnded

C19_Witness ==
    /\ args.consumer = "collect"
    /\ args.worker_greediness = 1
    /\ args.workers = 2
    /\ cpc = "wait_get"
    /\ getters[cq]
    /\ \E w \in WorkerIds : w # cq /\ putters[w] /\ wpc[w] = "await_put"

\* the consumer left the loop over resolve before its last position
Abandoned == cpc = "abandoned"

AllWorkersFinished == \A w \in workers_tasks : wpc[w] = "finished"

\* C12 as stated: once the consumer has abandoned the sequence, every spawned
\* worker runs to completion, for every worker_greediness >= 0: no state in
\* which nothing is left to run has a spawned worker that has not finished
C12_Original == (Abandoned /\ Quiescent) => AllWorkersFinished

C12_State ==
    /\ \A w \in WorkerIds : wpc[w] # "crashed"
    /\ (Abandoned /\ Quiescent) =>
          /\ args.worker_greediness = 0 =>
                /\ AllWorkersFinished
                /\ stream = args.n
                /\ \A i \in 0 .. (args.n - 1) : Finished(tstate, i)
          /\ args.worker_greediness >= 1 =>
                \A w \in workers_tasks :
                    \/ wpc[w] = "finished"
                    \/ /\ wpc[w] = "await_put"
                       /\ putters[w]
                       /\ Len(done[w]) = args.worker_greediness

\* C12 amended: after the consumer has abandoned the sequence the run comes
\* to rest; with worker_greediness = 0 every spawned worker has then run to
\* completion and every task was executed; with worker_greediness g >= 1 a
\* worker has either finished or waits for ever in put with g handles in
\* its queue, which nobody takes any more
C12_AbandonedWorkers == [] C12_State /\ <> (Abandoned /\ Quiescent)

C12_Witness ==
    /\ Abandoned
    /\ Quiescent
    /\ args.worker_greediness = 0
    /\ args.n = 3
    /\ Len(results) = 1
    /\ workers_tasks = {0, 1}
    /\ AllWorkersFinished
    /\ Len(done[0]) + Len(done[1]) = 2

\* C15 as stated: in whatever order the consumer awaits the get_one's, the
\* one of index i finds a queue recorded for i and yields the outcome of
\* task i
C15_AnyOrderGet ==
    args.consumer = "list" =>
        \A k \in 1 .. Len(results) :
            results[k] = TaskOutcome(tstate, args.plan[k])

C16_State ==
    cindex = -1 =>
        /\ workers_tasks = {}
        /\ \A w \in WorkerIds : wpc[w] = "none"
        /\ \A i \in Indices : tstate[i] = "new" /\ store[i] = -1
        /\ stream = 0
        /\ ~workers_up /\ ~stream_finished

C16_Step ==
    /\ (spawn_index' # spawn_index \/ workers_tasks' # workers_tasks) =>
          /\ spawn_index' = spawn_index + 1
          /\ spawn_index \notin workers_tasks
          /\ workers_tasks' = workers_tasks \cup {spawn_index}
          /\ wpc[spawn_index] = "none"
          /\ cpc' = "spawning"
    /\ (cpc # "spawning" /\ cpc' = "spawning") =>
          /\ workers_tasks = {}
          /\ cindex = -1
          /\ cindex' = args.plan[1]

\* C16: as long as the consumer has awaited no get_one, whether it has taken
\* none, some or all of them from the generator, no worker is spawned, no
\* index claimed and no task started; workers are spawned one after the
\* other by a single pass of start_workers, begun by the first get_one
\* awaited, and no worker is spawned a second time
C16_LazySpawning == [] C16_State /\ [][C16_Step]_vars

C16_Witness ==
    /\ cpc = "listed"
    /\ args.n = 3
    /\ stream_copy = 3
    /\ args.plan = << 2, 1, 0 >>
    /\ cindex = -1
    /\ workers_tasks = {}

C17_State ==
    /\ cpc # "raised"
    /\ error.kind = "none"
    /\ \A i \in Indices :
          /\ wrapper[i] => Finished(tstate, i)
          /\ Finished(tstate, i) =>
                wrapper[i] \/ \E k \in 1 .. Len(ready) : ready[k] = DoneCb(i)
    /\ (cpc = "await_wrapper" /\ wrapper[cindex]) =>
          \E k \in 1 .. Len(ready) : ready[k] = Consumer

C17_Step ==
    /\ \A i \in Indices :
          /\ wrapper[i] => wrapper'[i]
          /\ (~wrapper[i] /\ wrapper'[i]) =>
                Finished(tstate, i) /\ Head(ready) = DoneCb(i)
          /\ (tstate[i] = "new" /\ tstate'[i] # "new") =>
                /\ tstate'[i] = "scheduled"
                /\ ~wrapper'[i]
                /\ ready'[Len(ready')] \in {TaskCb(i), Consumer}
                /\ cpc' \in {"await_wrapper", "scheduling"}
    /\ Len(results') > Len(results) =>
          /\ wrapper[cindex]
          /\ results' = Append(results, TaskOutcome(tstate, cindex))

\* C17: schedule returns at once with an unresolved wrapper, the task being
\* queued and not yet run; the wrapper is resolved once, by the task's done
\* callback when the task has finished, whether the caller awaits it or not,
\* and never changes again; awaiting it never raises, for a task that
\* returned as for one that raised: the caller obtains the task's value or
\* error only by unwrapping what the wrapper gives
C17_Schedule == [] C17_State /\ [][C17_Step]_vars

C17_Witness ==
    /\ args.n = 3
    /\ cpc = "returned"
    /\ tstate[0] = "raised"
    /\ tstate[1] = "raised"
    /\ wrapper[0]
    /\ wrapper[1]
    /\ results = << [ok |-> FALSE, val |-> Value(1)] >>

====
